---- MODULE Spec2Model ----
(***************************************************************************)
(* HomeScreen of src/app/index.tsx: trail selection, the tracking effect   *)
(* (permission request, location subscription, cleanup), the per-update    *)
(* location callback with its route fetch, and the arrival check.          *)
(*                                                                         *)
(* Coordinates are fixed-point: one unit is 1e-4 degree, so the ROUTES     *)
(* table keeps its literal digits.  Distances are in metres.               *)
(*                                                                         *)
(* JavaScript scheduling: a press, a native location event and the         *)
(* settling of a network promise are tasks; the continuation after         *)
(* `await fetchRouteCoordinates(...)` is a microtask, which runs before    *)
(* any further task.  PendingMicrotask encodes that priority.              *)
(***************************************************************************)
EXTENDS Integers, Sequences, FiniteSets, TLC

VARIABLES
    selectedRoute,     \* useState selectedRoute: 0 is null, else a ROUTES id
    renderedRoute,     \* selectedRoute as of the last committed render
    location,          \* useState location: <<>> is null, else <<coordinate>>
    routeCoordinates,  \* useState routeCoordinates: sequence of coordinates
    sessions,          \* one record per run of the tracking effect
    callbacks,         \* the invocations of the location callback in progress
    pressedAgain,      \* history: back was pressed again before the re-render
    arrived,           \* history: an arrival check of the rendered effect run has
                       \* cleared the path, and every update delivered since
                       \* is within the threshold of the rendered destination
    watched            \* history: index in callbacks of one update delivered
                       \* within the threshold of its destination and followed
                       \* to the end of its callback, 0 when none is followed

vars ==
    <<selectedRoute, renderedRoute, location, routeCoordinates, sessions, callbacks,
      pressedAgain, arrived, watched>>

-----------------------------------------------------------------------------
\* Bounds of the model

MaxSessions == 2
MaxUpdates == 2
MaxLen == 3

-----------------------------------------------------------------------------
\* Data

Coord(lat, lon) == [latitude |-> lat, longitude |-> lon]

ROUTES ==
    [r \in 1..4 |->
        CASE r = 1 -> [id |-> 1, endLocation |-> Coord(348222, -1117901)]
          [] r = 2 -> [id |-> 2, endLocation |-> Coord(348032, -1117761)]
          [] r = 3 -> [id |-> 3, endLocation |-> Coord(348837, -1118158)]
          [] r = 4 -> [id |-> 4, endLocation |-> Coord(348743, -1117967)]]

RouteIds == DOMAIN ROUTES

Null == << >>

\* The trails the user taps
Tapped == {2, 3}

\* Positions the location provider reports: 23 m from Bell Rock's
\* destination (34.8030, -111.7760), and a point at exactly 50 m from it;
\* both are kilometres away from every other destination.
Positions == { Coord(348030, -1117760), Coord(348034, -1117756) }

-----------------------------------------------------------------------------
\* calculateDistance (Haversine) in fixed point

R == 6371

CosMilli(lat) == IF lat < 348650 THEN 821 ELSE 820

RECURSIVE SqrtSearch(_, _, _)
SqrtSearch(x, lo, hi) ==
    IF lo >= hi THEN lo
    ELSE LET mid == (lo + hi + 1) \div 2
         IN  IF mid * mid <= x THEN SqrtSearch(x, mid, hi)
             ELSE SqrtSearch(x, lo, mid - 1)

Sqrt(x) == SqrtSearch(x, 0, 46340)

\* 1e-4 degree in radians, divided by sqrt(1000), in units of 1e-8
RadScale == 5519

calculateDistance_CosOfPoint1Twice(point1, point2) ==
    LET dLat == point2.latitude - point1.latitude
        dLon == point2.longitude - point1.longitude
        a == 1000 * dLat * dLat
             + ((CosMilli(point1.latitude) * CosMilli(point1.latitude)) \div 1000)
               * dLon * dLon
        c == Sqrt(a)
    IN  (((R * c) \div 1000) * RadScale) \div 100000

calculateDistance(point1, point2) ==
    LET dLat == point2.latitude - point1.latitude
        dLon == point2.longitude - point1.longitude
        \* sin(x/2)^2 for the small angles of this map region, scaled by 1000
        a == 1000 * dLat * dLat
             + ((CosMilli(point1.latitude) * CosMilli(point2.latitude)) \div 1000)
               * dLon * dLon
        c == Sqrt(a)
    IN  (((R * c) \div 1000) * RadScale) \div 100000

ArrivalThreshold == 50

Arrived_Inclusive(distance) == distance <= ArrivalThreshold

\* distance < 0.05 (kilometres)
Arrived(distance) == distance < ArrivalThreshold

-----------------------------------------------------------------------------
\* The routing service's answers

\* A parsed response body: data.routes may be absent (an OSRM error body such
\* as {"code":"NoRoute"}), empty, or hold a route with or without geometry.
Body(hasRoutes, routes) == [hasRoutes |-> hasRoutes, routes |-> routes]

RouteWith(coordinates) == [hasGeometry |-> TRUE, coordinates |-> coordinates]

RouteWithoutGeometry == [hasGeometry |-> FALSE, coordinates |-> << >>]

\* A three-point geometry from start to end in service order [longitude, latitude]
Geometry(start, end) ==
    << <<start.longitude, start.latitude>>,
       <<(start.longitude + end.longitude) \div 2, (start.latitude + end.latitude) \div 2>>,
       <<end.longitude, end.latitude>> >>

Bodies(start, end) ==
    { Body(FALSE, << >>),
      Body(TRUE, << >>),
      Body(TRUE, << RouteWithoutGeometry >>),
      Body(TRUE, << RouteWith(Geometry(start, end)) >>) }

\* What the two awaits of the try block deliver: fetch() rejects, or
\* response.json() rejects, or a parsed body
Outcome(kind, body) == [kind |-> kind, body |-> body]

Outcomes(start, end) ==
    { Outcome("fetchThrows", Body(FALSE, << >>)), Outcome("jsonThrows", Body(FALSE, << >>)) }
    \cup { Outcome("body", b) : b \in Bodies(start, end) }

OutcomeTag(o) ==
    IF o.kind # "body" THEN o.kind
    ELSE IF ~o.body.hasRoutes THEN "noRoutes"
    ELSE IF Len(o.body.routes) = 0 THEN "emptyRoutes"
    ELSE IF ~o.body.routes[1].hasGeometry THEN "noGeometry"
    ELSE "ok"

MapCoordinates_NoSwap(coordinates) ==
    [i \in DOMAIN coordinates |-> Coord(coordinates[i][1], coordinates[i][2])]

\* coordinates.map(coord => ({latitude: coord[1], longitude: coord[0]}));
\* JavaScript indexes from 0, TLA+ from 1
MapCoordinates(coordinates) ==
    [i \in DOMAIN coordinates |-> Coord(coordinates[i][2], coordinates[i][1])]

\* The try block: threw says whether control reaches the catch clause; sets
\* says whether setRouteCoordinates(routeCoords) was called
TryBlock(o) ==
    IF o.kind # "body" THEN [threw |-> TRUE, sets |-> FALSE, coords |-> << >>]
    ELSE IF o.body.hasRoutes /\ Len(o.body.routes) >= 1
         THEN IF o.body.routes[1].hasGeometry
              THEN [threw |-> FALSE, sets |-> TRUE,
                    coords |-> MapCoordinates(o.body.routes[1].coordinates)]
              ELSE [threw |-> TRUE, sets |-> FALSE, coords |-> << >>]
         ELSE [threw |-> FALSE, sets |-> FALSE, coords |-> << >>]

fetchRouteCoordinates_Uncaught(start, end, o) ==
    LET t == TryBlock(o)
    IN  IF o.kind = "body" /\ t.threw
        THEN [raised |-> TRUE, sets |-> FALSE, coords |-> << >>]
        ELSE IF t.threw
             THEN [raised |-> FALSE, sets |-> TRUE, coords |-> <<start, end>>]
             ELSE [raised |-> FALSE, sets |-> t.sets, coords |-> t.coords]

\* fetchRouteCoordinates: raised says whether its promise rejects; sets and
\* coords are its call of setRouteCoordinates, if any
fetchRouteCoordinates(start, end, o) ==
    LET t == TryBlock(o)
    IN  IF t.threw
        THEN [raised |-> FALSE, sets |-> TRUE, coords |-> <<start, end>>]
        ELSE [raised |-> FALSE, sets |-> t.sets, coords |-> t.coords]

-----------------------------------------------------------------------------
\* The tracking effect

\* A run of the effect with selectedRoute = route.  pc is the position of the
\* async function: "perm" awaits requestForegroundPermissionsAsync, "watch"
\* awaits watchPositionAsync, "denied" returned early, "failed" had
\* watchPositionAsync reject, "done" assigned locationSubscription.
\* subscribed is the closure variable locationSubscription being set; live
\* is the provider-side subscription delivering updates; removeCalls counts
\* calls of remove(); cleaned says the cleanup function has run.
NewSession(route) ==
    [route |-> route, pc |-> "perm", subscribed |-> FALSE, live |-> FALSE,
     removeCalls |-> 0, cleaned |-> FALSE]

Cleanup_NoRemove(sess) == [sess EXCEPT !.cleaned = TRUE]

\* The function the effect returns
Cleanup(sess) ==
    IF sess.subscribed
    THEN [sess EXCEPT !.cleaned = TRUE, !.live = FALSE, !.removeCalls = @ + 1]
    ELSE [sess EXCEPT !.cleaned = TRUE]

Current == Len(sessions)

HasCurrent == renderedRoute # 0

PendingMicrotask == \E c \in DOMAIN callbacks : callbacks[c].pc = "check"

Init ==
    /\ selectedRoute = 0
    /\ renderedRoute = 0
    /\ location = Null
    /\ routeCoordinates = << >>
    /\ sessions = << >>
    /\ callbacks = << >>
    /\ pressedAgain = FALSE
    /\ arrived = FALSE
    /\ watched = 0

\* onPress of a catalog button; the catalog is what the last render shows
\* while it saw no selection
PressRoute(route) ==
    /\ ~PendingMicrotask
    /\ renderedRoute = 0
    /\ Len(sessions) < MaxSessions
    /\ selectedRoute' = route.id
    /\ pressedAgain' = FALSE
    /\ UNCHANGED <<renderedRoute, location, routeCoordinates, sessions, callbacks, arrived, watched>>

\* onPress of the back button; the button stays on screen until the next render
PressBack ==
    /\ ~PendingMicrotask
    /\ renderedRoute # 0
    /\ selectedRoute' = 0
    /\ pressedAgain' = (pressedAgain \/ selectedRoute = 0)
    /\ UNCHANGED <<renderedRoute, location, routeCoordinates, sessions, callbacks, arrived, watched>>

\* Re-render after selectedRoute changed: the previous effect's cleanup runs,
\* then the effect body for the new value
Render ==
    /\ ~PendingMicrotask
    /\ selectedRoute # renderedRoute
    /\ LET cleaned == IF HasCurrent
                      THEN [sessions EXCEPT ![Current] = Cleanup(@)]
                      ELSE sessions
       IN  sessions' = IF selectedRoute # 0
                       THEN Append(cleaned, NewSession(selectedRoute))
                       ELSE cleaned
    /\ renderedRoute' = selectedRoute
    /\ arrived' = FALSE
    /\ UNCHANGED <<selectedRoute, location, routeCoordinates, callbacks, pressedAgain, watched>>

\* requestForegroundPermissionsAsync settles
PermissionResult(s, granted) ==
    /\ ~PendingMicrotask
    /\ sessions[s].pc = "perm"
    /\ sessions' = [sessions EXCEPT ![s].pc = IF granted THEN "watch" ELSE "denied"]
    /\ UNCHANGED <<selectedRoute, renderedRoute, location, routeCoordinates, callbacks, pressedAgain, arrived, watched>>

\* watchPositionAsync resolves and locationSubscription is assigned
WatchResolves(s) ==
    /\ ~PendingMicrotask
    /\ sessions[s].pc = "watch"
    /\ sessions' = [sessions EXCEPT ![s] =
                        [@ EXCEPT !.pc = "done", !.subscribed = TRUE, !.live = TRUE]]
    /\ UNCHANGED <<selectedRoute, renderedRoute, location, routeCoordinates, callbacks, pressedAgain, arrived, watched>>

\* watchPositionAsync rejects
WatchRejects(s) ==
    /\ ~PendingMicrotask
    /\ sessions[s].pc = "watch"
    /\ sessions' = [sessions EXCEPT ![s].pc = "failed"]
    /\ UNCHANGED <<selectedRoute, renderedRoute, location, routeCoordinates, callbacks, pressedAgain, arrived, watched>>

\* The provider invokes the callback: setLocation, then fetch() is awaited
LocationUpdate(s, pos) ==
    /\ ~PendingMicrotask
    /\ sessions[s].live
    /\ Len(callbacks) < MaxUpdates
    /\ location' = <<pos>>
    /\ callbacks' = Append(callbacks,
                           [session |-> s, position |-> pos, pc |-> "fetch",
                            outcome |-> "pending"])
    /\ arrived' = (arrived /\ Arrived(calculateDistance(pos, ROUTES[renderedRoute].endLocation)))
    /\ watched' \in (IF watched = 0 /\ Arrived(calculateDistance(pos, ROUTES[sessions[s].route].endLocation))
                     THEN {0, Len(callbacks) + 1}
                     ELSE {watched})
    /\ UNCHANGED <<selectedRoute, renderedRoute, routeCoordinates, sessions, pressedAgain>>

\* Callback c belongs to the effect run of the last render
OfRenderedRun(c) ==
    HasCurrent /\ callbacks[c].session = Current /\ ~sessions[Current].cleaned

\* The index w of a followed callback once the callback at index c is gone
Shift(w, c) == IF w = c THEN 0 ELSE IF w > c THEN w - 1 ELSE w

Remove(seq, c) ==
    [i \in 1..(Len(seq) - 1) |-> IF i < c THEN seq[i] ELSE seq[i + 1]]

End(c) == ROUTES[sessions[callbacks[c].session].route].endLocation

FetchSettles_NewestOnly(c, o) ==
    LET f == fetchRouteCoordinates(callbacks[c].position, End(c), o)
    IN  /\ ~PendingMicrotask
        /\ callbacks[c].pc = "fetch"
        /\ routeCoordinates' = IF f.sets /\ c = Len(callbacks) THEN f.coords
                               ELSE routeCoordinates
        /\ callbacks' = [callbacks EXCEPT ![c] =
                            [@ EXCEPT !.pc = IF f.raised THEN "rejected" ELSE "check",
                                      !.outcome = OutcomeTag(o)]]
        /\ UNCHANGED <<selectedRoute, renderedRoute, location, sessions, pressedAgain, arrived, watched>>

\* The awaits of fetchRouteCoordinates (fetch, then response.json) deliver o
\* and the function runs to its end.  No state is read or written between
\* the two awaits, so they are one step.
FetchSettles(c, o) ==
    LET f == fetchRouteCoordinates(callbacks[c].position, End(c), o)
    IN  /\ ~PendingMicrotask
        /\ callbacks[c].pc = "fetch"
        /\ routeCoordinates' = IF f.sets THEN f.coords ELSE routeCoordinates
        /\ callbacks' = [callbacks EXCEPT ![c] =
                            [@ EXCEPT !.pc = IF f.raised THEN "rejected" ELSE "check",
                                      !.outcome = OutcomeTag(o)]]
        /\ UNCHANGED <<selectedRoute, renderedRoute, location, sessions, pressedAgain, arrived, watched>>

ArrivalCheck_Deselects(c) ==
    LET distance == calculateDistance(callbacks[c].position, End(c))
    IN  /\ callbacks[c].pc = "check"
        /\ routeCoordinates' = IF Arrived(distance) THEN << >> ELSE routeCoordinates
        /\ selectedRoute' = IF Arrived(distance) THEN 0 ELSE selectedRoute
        /\ callbacks' = Remove(callbacks, c)
        /\ arrived' = (arrived \/ (Arrived(distance) /\ OfRenderedRun(c)))
        /\ watched' = Shift(watched, c)
        /\ UNCHANGED <<renderedRoute, location, sessions, pressedAgain>>

\* The callback resumes after `await fetchRouteCoordinates(...)`, runs the
\* arrival check and returns
ArrivalCheck(c) ==
    LET distance == calculateDistance(callbacks[c].position, End(c))
    IN  /\ callbacks[c].pc = "check"
        /\ routeCoordinates' = IF Arrived(distance) THEN << >> ELSE routeCoordinates
        /\ callbacks' = Remove(callbacks, c)
        /\ arrived' = (arrived \/ (Arrived(distance) /\ OfRenderedRun(c)))
        /\ watched' = Shift(watched, c)
        /\ UNCHANGED <<selectedRoute, renderedRoute, location, sessions, pressedAgain>>

Next ==
    \/ \E r \in Tapped : PressRoute(ROUTES[r])
    \/ PressBack
    \/ Render
    \/ \E s \in DOMAIN sessions : \E granted \in BOOLEAN : PermissionResult(s, granted)
    \/ \E s \in DOMAIN sessions : WatchResolves(s)
    \/ \E s \in DOMAIN sessions : WatchRejects(s)
    \/ \E s \in DOMAIN sessions : \E pos \in Positions : LocationUpdate(s, pos)
    \/ \E c \in DOMAIN callbacks :
           \E o \in Outcomes(callbacks[c].position, End(c)) : FetchSettles(c, o)
    \/ \E c \in DOMAIN callbacks : ArrivalCheck(c)

Spec == Init /\ [][Next]_vars

\* The fetch of the callback at index c settles, with any outcome
FetchCompletes(c) ==
    /\ c \in DOMAIN callbacks
    /\ \E o \in Outcomes(callbacks[c].position, End(c)) : FetchSettles(c, o)

\* Every fetch eventually resolves or fails (it is disabled while a
\* continuation is pending, hence strong fairness), and a pending
\* continuation is run by the event loop.  ArrivalCheck is the only step
\* enabled while a continuation is pending and it ends the only pending
\* one, so WF_vars(\E c \in DOMAIN callbacks : ArrivalCheck(c)) is the
\* second conjunct.
Fairness ==
    /\ \A c \in 1..MaxUpdates : SF_vars(FetchCompletes(c))
    /\ []<>(~PendingMicrotask)

FairSpec == Init /\ [][Next]_vars /\ Fairness

-----------------------------------------------------------------------------
\* One invocation of the location callback, with wider inputs: any trail, a
\* position from GeoPositions, and a well-formed response whose geometry is
\* any sequence of up to MaxLen pairs

\* [longitude, latitude] pairs of the routing service
Pairs == { <<-1117761, 348032>>, <<-1117760, 348030>>, <<-1118158, 348837>> }

Geometries == UNION { [1..n -> Pairs] : n \in 0..MaxLen }

\* Positions on both sides of the latitude where CosMilli changes
GeoPositions ==
    Positions \cup { Coord(348697, -1117609), Coord(348600, -1118200),
                     Coord(349000, -1117500) }

RouteBody(g) == Outcome("body", Body(TRUE, << RouteWith(g) >>))

\* The effect run of trail r is subscribed and its callback has just been
\* invoked with pos
InitCallback ==
    \E r \in RouteIds, pos \in GeoPositions :
        /\ selectedRoute = r
        /\ renderedRoute = r
        /\ location = <<pos>>
        /\ routeCoordinates = << >>
        /\ sessions = << [NewSession(r) EXCEPT !.pc = "done", !.subscribed = TRUE,
                                               !.live = TRUE] >>
        /\ callbacks = << [session |-> 1, position |-> pos, pc |-> "fetch",
                           outcome |-> "pending"] >>
        /\ pressedAgain = FALSE
        /\ arrived = FALSE
        /\ watched = 0

NextCallback ==
    \/ \E c \in DOMAIN callbacks : \E g \in Geometries : FetchSettles(c, RouteBody(g))
    \/ \E c \in DOMAIN callbacks : ArrivalCheck(c)

SpecCallback == InitCallback /\ [][NextCallback]_vars

-----------------------------------------------------------------------------
\* Steps of a callback, as seen in a pair of states

\* fetchRouteCoordinates of callback c runs to its end in this step
SettleStep(c) ==
    /\ callbacks[c].pc = "fetch"
    /\ Len(callbacks') = Len(callbacks)
    /\ callbacks'[c].pc # "fetch"

\* The arrival check of callback c runs in this step
CheckStep(c) ==
    /\ callbacks[c].pc = "check"
    /\ Len(callbacks') < Len(callbacks)

Stopped(s) == sessions[s].cleaned

Destination == ROUTES[renderedRoute].endLocation

-----------------------------------------------------------------------------
\* Claims

\* C1: routeCoordinates is non-empty only while a trail is selected (the
\* part of the invariant that does not mention arrival).
C1_PathOnlyWhileSelected ==
    routeCoordinates # << >> => selectedRoute # 0

\* C2: a step of a location callback (the end of its fetch, or its arrival
\* check) whose effect run has been cleaned up leaves routeCoordinates as it
\* was.
C2_StaleFetchDiscarded ==
    [][\A c \in DOMAIN callbacks :
          (Stopped(callbacks[c].session) /\ (SettleStep(c) \/ CheckStep(c)))
              => routeCoordinates' = routeCoordinates]_vars

\* C3: once an effect run has been cleaned up and its async function has run
\* to its end, it holds no live location subscription.
C3_NoLeakedSubscription ==
    \A s \in DOMAIN sessions :
        (Stopped(s) /\ sessions[s].pc \in {"done", "denied", "failed"})
            => ~sessions[s].live

\* C4: the cleanup of an effect run whose subscription is established calls
\* remove() and leaves it called exactly once; remove() is never called a
\* second time, however often back was pressed.
C4_RemoveExactlyOnce ==
    [][\A s \in DOMAIN sessions :
          /\ sessions'[s].removeCalls <= 1
          /\ (sessions[s].live /\ ~Stopped(s) /\ sessions'[s].cleaned)
                 => (sessions'[s].removeCalls = 1 /\ ~sessions'[s].live)
          /\ Stopped(s) => sessions'[s].removeCalls = sessions[s].removeCalls]_vars

\* C4 witness: back was pressed more than once before the re-render, and the
\* run that was cleaned up had its subscription removed once.
C4_Witness ==
    /\ pressedAgain
    /\ renderedRoute = 0
    /\ sessions # << >>
    /\ sessions[Current].cleaned
    /\ sessions[Current].subscribed
    /\ ~sessions[Current].live
    /\ sessions[Current].removeCalls = 1

\* C5: when the request threw (fetch or json) or the body had no routes[0],
\* fetchRouteCoordinates leaves routeCoordinates = [start, end].
C5_FallbackOnEveryFailure ==
    \A c \in DOMAIN callbacks :
        (/\ callbacks[c].pc = "check"
         /\ callbacks[c].outcome \in {"fetchThrows", "jsonThrows", "noRoutes", "emptyRoutes"})
            => routeCoordinates = <<callbacks[c].position, End(c)>>

\* C6: no invocation of the location callback is rejected by
\* fetchRouteCoordinates: once the request has delivered any outcome the
\* callback stands at its arrival check.
C6_FetchNeverRaises ==
    \A c \in DOMAIN callbacks :
        /\ callbacks[c].pc # "rejected"
        /\ callbacks[c].outcome # "pending" => callbacks[c].pc = "check"

\* C6 witness: routes[0] had no geometry (a TypeError inside the try block)
\* and the callback stands at its arrival check.
C6_Witness ==
    \E c \in DOMAIN callbacks :
        callbacks[c].pc = "check" /\ callbacks[c].outcome = "noGeometry"

\* C7: when no callback is in progress and the position delivered last, by
\* the rendered effect run (the only run that ever subscribed), is within the
\* arrival threshold of its destination, routeCoordinates is empty.
C7_ArrivedMeansEmpty ==
    (/\ HasCurrent
     /\ ~Stopped(Current)
     /\ \A s \in 1..(Current - 1) : ~sessions[s].subscribed
     /\ location # Null
     /\ callbacks = << >>
     /\ calculateDistance(location[1], Destination) < ArrivalThreshold)
        => routeCoordinates = << >>

\* C8: an arrival check clears routeCoordinates when the distance is below
\* 50 m and leaves it as it was when the distance is 50 m or more.
C8_ExclusiveBoundary ==
    [][\A c \in DOMAIN callbacks :
          CheckStep(c) =>
              LET distance == calculateDistance(callbacks[c].position, End(c))
              IN  /\ distance < ArrivalThreshold => routeCoordinates' = << >>
                  /\ distance >= ArrivalThreshold => routeCoordinates' = routeCoordinates]_vars

\* C8 witness: the one effect run has handled, to the end, an update at
\* exactly 50 m from its destination, and the path is still there.
C8_Witness ==
    /\ HasCurrent
    /\ Len(sessions) = 1
    /\ callbacks = << >>
    /\ location # Null
    /\ calculateDistance(location[1], Destination) = ArrivalThreshold
    /\ routeCoordinates # << >>

\* C9: while the rendered effect run stands at its permission denial there
\* is no tracked position, no subscription of that run and no callback of it.
C9_DeniedSessionDoesNothing ==
    (HasCurrent /\ sessions[Current].pc = "denied")
        => /\ location = Null
           /\ ~sessions[Current].live
           /\ \A c \in DOMAIN callbacks : callbacks[c].session # Current

\* C10: while no trail is selected there is no tracked position.
C10_NoPositionWithoutSelection ==
    selectedRoute = 0 => location = Null

\* C11: selectedRoute changes only in a press handler, and it goes from a
\* trail to null only in the back button's handler.
C11_OnlyBackDeselects ==
    [][/\ selectedRoute' # selectedRoute
           => (PressBack \/ \E r \in RouteIds : PressRoute(ROUTES[r]))
       /\ (selectedRoute # 0 /\ selectedRoute' = 0) => PressBack]_vars

\* C11 witness: arrival has cleared the path of the rendered effect run, no
\* callback is in progress, and the trail is still selected.
C11_Witness ==
    /\ HasCurrent
    /\ selectedRoute = renderedRoute
    /\ callbacks = << >>
    /\ location # Null
    /\ calculateDistance(location[1], Destination) < ArrivalThreshold
    /\ routeCoordinates = << >>

\* C12: when the response is well formed with geometry g, the path that
\* fetchRouteCoordinates sets has the length of g and its i-th point has
\* latitude g[i][1] and longitude g[i][0] (0-based, as in the source).
C12_MappedPathSwapsPairs ==
    [][\A c \in DOMAIN callbacks : \A g \in Geometries :
          FetchSettles(c, RouteBody(g))
              => /\ Len(routeCoordinates') = Len(g)
                 /\ \A i \in 1..Len(g) :
                        /\ routeCoordinates'[i].latitude = g[i][2]
                        /\ routeCoordinates'[i].longitude = g[i][1]]_vars

\* C12 witness: a three-point geometry has been mapped.
C12_Witness ==
    /\ \E c \in DOMAIN callbacks : callbacks[c].pc = "check" /\ callbacks[c].outcome = "ok"
    /\ Len(routeCoordinates) = 3
    /\ routeCoordinates[1] = Coord(348032, -1117761)
    /\ routeCoordinates[2] = Coord(348030, -1117760)
    /\ routeCoordinates[3] = Coord(348837, -1118158)

\* C13: calculateDistance gives the same value with its arguments exchanged,
\* for the reported position against every destination and every position.
C13_DistanceSymmetric ==
    location # Null =>
        \A q \in GeoPositions \cup { ROUTES[r].endLocation : r \in RouteIds } :
            calculateDistance(location[1], q) = calculateDistance(q, location[1])

\* C13 witness: the arrival check has run for a position 23 m from the
\* destination, and the distance taken in the other order is 23 m too.
C13_Witness ==
    /\ callbacks = << >>
    /\ location # Null
    /\ calculateDistance(location[1], Destination) = 23
    /\ calculateDistance(Destination, location[1]) = 23
    /\ routeCoordinates = << >>

\* C14: whenever fetchRouteCoordinates ends with a path (the mapped route,
\* or the fallback after a throw), routeCoordinates becomes exactly that
\* path, whatever it held and whichever newer updates are in progress or done.
C14_LastResolvedWins ==
    [][\A c \in DOMAIN callbacks :
          SettleStep(c) =>
              LET tag == callbacks'[c].outcome
                  start == callbacks[c].position
              IN  /\ tag = "ok"
                         => routeCoordinates' = MapCoordinates(Geometry(start, End(c)))
                  /\ tag \in {"fetchThrows", "jsonThrows", "noGeometry"}
                         => routeCoordinates' = <<start, End(c)>>]_vars

\* C14 witness: the only effect run has received a newer update, whose
\* callback has returned, and then the fetch of an older update has put its
\* route, which starts at the older position, into routeCoordinates.
C14_Witness ==
    /\ Len(sessions) = 1
    /\ Len(callbacks) = 1
    /\ callbacks[1].pc = "check"
    /\ callbacks[1].outcome = "ok"
    /\ location # Null
    /\ callbacks[1].position # location[1]
    /\ routeCoordinates # << >>
    /\ routeCoordinates[1] = callbacks[1].position

\* C15: once an arrival check of the rendered effect run has cleared the
\* path, and while every update delivered since (and every update whose
\* callback is still running) is within 50 m of the destination,
\* routeCoordinates is empty in every state.
C15_StaysEmptyAfterArrival ==
    (/\ arrived
     /\ \A c \in DOMAIN callbacks :
            Arrived(calculateDistance(callbacks[c].position, Destination)))
        => routeCoordinates = << >>

\* C16: an update delivered within 50 m of its destination is followed
\* (watched # 0) until its callback ends; under Fairness its callback ends,
\* and the step that ends it leaves routeCoordinates empty.
C16_InRadiusUpdateClears ==
    /\ (watched # 0) ~> (watched = 0 /\ routeCoordinates = << >>)
    /\ [][(watched # 0 /\ watched' = 0)
            => (CheckStep(watched) /\ routeCoordinates' = << >>)]_vars

\* the followed update's callback has ended and cleared a non-empty path
C16_Witness ==
    /\ watched = 0
    /\ arrived
    /\ routeCoordinates = << >>
    /\ callbacks = << >>
    /\ location # Null

\* C17: at most one location subscription is established and not yet
\* released, in every state.
C17_AtMostOneSubscription ==
    Cardinality({s \in DOMAIN sessions : sessions[s].live}) <= 1

\* C18: while a trail is rendered as selected, a non-empty routeCoordinates
\* ends at the destination of that trail.
C18_PathEndsAtCurrentDestination ==
    (HasCurrent /\ selectedRoute = renderedRoute /\ routeCoordinates # << >>)
        => routeCoordinates[Len(routeCoordinates)] = Destination

====
